---- MODULE Spec2Model ----
(***************************************************************************)
(* Model of the bulk repository migration script (migration.py) and of its *)
(* pre-migration audit (pre_migration.py).  A string the code takes apart  *)
(* is a sequence of pieces: single characters where an operation looks     *)
(* inside (repository names, the .git suffix, file names, indicators), a    *)
(* whole literal where none does (host prefix, organisation, owner).        *)
(***************************************************************************)
EXTENDS Integers, Sequences, FiniteSets, TLC

\* ------------------------------------------------------------------ bounds
MaxRepos == 2
MaxRuns == 2
MaxFiles == 2

\* --------------------------------------------------------------- constants
ORG_NAME == <<"capgemini-cg-demo">>

GITHUB_PREFIX == <<"https://github.com/">>

DOT_GIT == <<".","g","i","t">>

REPO_SUFFIX == <<"-repo">>

WORKTREE_SUFFIX == <<"-worktree">>

\* Python's None for the sequence-valued results.
None == <<"None">>

\* The literal returned when no indicator matched (line 81).
NO_BUILD_SYSTEM == "No common build system detected."

build_systems ==
    << <<"maven", <<"p","o","m",".","x","m","l">>>>,
       <<"gradle", <<"b","u","i","l","d",".","g","r","a","d","l","e">>>>,
       <<"npm", <<"p","a","c","k","a","g","e",".","j","s","o","n">>>>,
       <<"yarn", <<"y","a","r","n",".","l","o","c","k">>>>,
       <<"make", <<"M","a","k","e","f","i","l","e">>>>,
       <<"cmake", <<"C","M","a","k","e","L","i","s","t","s",".","t","x","t">>>>,
       <<"bazel", <<"B","U","I","L","D">>>>,
       <<"go", <<"g","o",".","m","o","d">>>>,
       <<"rust", <<"C","a","r","g","o",".","t","o","m","l">>>>,
       <<"python_setuptools", <<"s","e","t","u","p",".","p","y">>>>,
       <<"python_pip", <<"r","e","q","u","i","r","e","m","e","n","t","s",".","t","x","t">>>>,
       <<"python_pyproject", <<"p","y","p","r","o","j","e","c","t",".","t","o","m","l">>>>,
       <<"ruby_bundler", <<"G","e","m","f","i","l","e">>>>,
       <<"ruby_gem", <<".","g","e","m","s","p","e","c">>>>,
       <<"dotNET_CS", <<".","c","s","p","r","o","j">>>>,
       <<"dotNET_VB", <<".","v","b","p","r","o","j">>>>,
       <<"dotNET_FS", <<".","f","s","p","r","o","j">>>>,
       <<"dotNET_Solution", <<".","s","l","n">>>>,
       <<"dotNET_SDK", <<"g","l","o","b","a","l",".","j","s","o","n">>>>,
       <<"dotNET_NuGet", <<"p","a","c","k","a","g","e","s",".","c","o","n","f","i","g">>>> >>

\* pre_migration.py's own indicator map (its lines 16-22).
pre_migration_build_systems ==
    << <<"maven", <<"p","o","m",".","x","m","l">>>>,
       <<"gradle", <<"b","u","i","l","d",".","g","r","a","d","l","e">>>>,
       <<"npm", <<"p","a","c","k","a","g","e",".","j","s","o","n">>>>,
       <<"python", <<"r","e","q","u","i","r","e","m","e","n","t","s",".","t","x","t">>>> >>

\* ------------------------------------------------------------------ inputs
\* Repository identifiers "owner/name" a source list can hold: two owners
\* with a repository of the same base name.
RepoIds ==
    { <<"acme", "/", "k","i","t">>,
      <<"beta", "/", "k","i","t">> }

\* Top-level listings the hosting API can return for a repository.
Listings ==
    { << <<"R","E","A","D","M","E",".","m","d">> >>,
      << <<"p","a","c","k","a","g","e",".","j","s","o","n">>,
         <<"p","o","m",".","x","m","l">> >> }

\* repo.language: a language name, or None for a repository without one.
Languages == {"Java", "None"}

\* ---------------------------------------------------------- pure functions
\* An indicator compared with the whole name.
IsSubstring_Exact(s, t) == s = t

\* Python's `s in t` on strings.
IsSubstring(s, t) ==
    \E i \in 0..(Len(t) - Len(s)) : SubSeq(t, i + 1, i + Len(s)) = s

\* Python truthiness of a str/None value held as a sequence.
Truthy(x) == x # None /\ x # <<>>

\* The loop of lines 77-79 leaving at its first match.
RECURSIVE DetectFrom_FirstOnly(_, _, _)
DetectFrom_FirstOnly(map, repo_files, k) ==
    IF k > Len(map) THEN <<>>
    ELSE IF \E j \in 1..Len(repo_files) : IsSubstring(map[k][2], repo_files[j])
         THEN <<map[k][1]>>
         ELSE DetectFrom_FirstOnly(map, repo_files, k + 1)

\* Lines 76-79: the tags, in the map's order, whose indicator is contained
\* in some name of the listing.
RECURSIVE DetectFrom(_, _, _)
DetectFrom(map, repo_files, k) ==
    IF k > Len(map) THEN <<>>
    ELSE LET hit == \E j \in 1..Len(repo_files) :
                        IsSubstring(map[k][2], repo_files[j])
         IN (IF hit THEN <<map[k][1]>> ELSE <<>>)
            \o DetectFrom(map, repo_files, k + 1)

detected_build_systems(repo_files) == DetectFrom(build_systems, repo_files, 1)

\* ', '.join(tags): the tags separated by ", " tokens.
RECURSIVE Join(_)
Join(tags) ==
    IF Len(tags) = 0 THEN <<>>
    ELSE IF Len(tags) = 1 THEN <<tags[1]>>
    ELSE <<tags[1], ", ">> \o Join(Tail(tags))

\* Line 81: the joined tags, or the sentinel when the list is empty.
build_systems_detected(repo_files) ==
    IF detected_build_systems(repo_files) # <<>>
    THEN Join(detected_build_systems(repo_files))
    ELSE <<NO_BUILD_SYSTEM>>

\* pre_migration.py lines 40-45: the same loop over its own map.
pre_migration_build_systems_detected(repo_files) ==
    IF DetectFrom(pre_migration_build_systems, repo_files, 1) # <<>>
    THEN Join(DetectFrom(pre_migration_build_systems, repo_files, 1))
    ELSE <<NO_BUILD_SYSTEM>>

\* build_system.split(', ') (line 209).
RECURSIVE Split(_)
Split(s) ==
    IF Len(s) = 0 THEN <<>>
    ELSE IF s[1] = ", " THEN Split(Tail(s))
    ELSE <<s[1]>> \o Split(Tail(s))

\* repo_name.split('/')[-1] (line 221): what follows the last '/'.
RECURSIVE LastComponent(_)
LastComponent(s) ==
    IF \E i \in 1..Len(s) : s[i] = "/"
    THEN LastComponent(Tail(s))
    ELSE s

local_repo_name(repo_name) == LastComponent(repo_name)

local_repo_path(repo_name) == local_repo_name(repo_name) \o REPO_SUFFIX

temporary_work_dir(repo_name) == local_repo_name(repo_name) \o WORKTREE_SUFFIX

source_url(repo_name) == GITHUB_PREFIX \o repo_name \o DOT_GIT

push_url(repo_name) ==
    GITHUB_PREFIX \o ORG_NAME \o <<"/">> \o local_repo_name(repo_name) \o DOT_GIT

\* The template document stored for a tag, when one exists and is not empty.
Template(tag) == <<"yml", tag>>

\* f-string "{system}-ci.yml" (lines 101, 242).
CiFileName(tag) == <<tag, "-ci.yml">>

\* str.replace(old, ""): every occurrence of old removed, left to right.
RECURSIVE RemoveAll(_, _)
RemoveAll(s, old) ==
    IF Len(s) < Len(old) \/ Len(old) = 0 THEN s
    ELSE IF SubSeq(s, 1, Len(old)) = old
         THEN RemoveAll(SubSeq(s, Len(old) + 1, Len(s)), old)
         ELSE <<s[1]>> \o RemoveAll(Tail(s), old)

\* str.rstrip(chars): trailing characters that belong to chars removed.
RECURSIVE RStrip(_, _)
RStrip(s, chars) ==
    IF Len(s) > 0 /\ s[Len(s)] \in chars
    THEN RStrip(SubSeq(s, 1, Len(s) - 1), chars)
    ELSE s

\* Line 171: the line log_target_repo_url writes for a target URL.
org_repo(target_url) ==
    RStrip(RemoveAll(target_url, GITHUB_PREFIX), {".", "g", "i", "t"})

\* ------------------------------------------------------------- the ledger
HEADER ==
    << <<"source_github_url">>, <<"target_github_url">>,
       <<"migrated_with_workflow_file">> >>

\* csv.DictReader over the file: the first row names the columns, the
\* others are data; existing_entries is their source_github_url column.
existing_entries(file) ==
    IF file.exists /\ Len(file.rows) > 0
    THEN { file.rows[i][1] : i \in 2..Len(file.rows) }
    ELSE {}

\* str(bool) as csv.DictWriter writes it.
BoolStr(b) == IF b THEN <<"True">> ELSE <<"False">>

\* record with the file opened for writing instead of appending.
log_migration_to_csv_Rewrite(file, src, tgt, migrated_with_workflow) ==
    IF src \notin existing_entries(file)
    THEN [exists |-> TRUE,
          rows |-> << HEADER, <<src, tgt, BoolStr(migrated_with_workflow)>> >>]
    ELSE file

\* record without the existing-entries check of line 151.
log_migration_to_csv_NoCheck(file, src, tgt, migrated_with_workflow) ==
    [exists |-> TRUE,
     rows |-> file.rows
              \o (IF ~file.exists THEN <<HEADER>> ELSE <<>>)
              \o << <<src, tgt, BoolStr(migrated_with_workflow)>> >>]

\* Lines 140-166: the ledger file after record(source, target, flag).
log_migration_to_csv(file, src, tgt, migrated_with_workflow) ==
    IF src \notin existing_entries(file)
    THEN [exists |-> TRUE,
          rows |-> file.rows
                   \o (IF ~file.exists THEN <<HEADER>> ELSE <<>>)
                   \o << <<src, tgt, BoolStr(migrated_with_workflow)>> >>]
    ELSE file

\* recordTargetURL skipping a line the file already holds.
log_target_repo_url_Dedup(lines, target_url) ==
    IF \E i \in 1..Len(lines) : lines[i] = org_repo(target_url)
    THEN lines
    ELSE Append(lines, org_repo(target_url))

\* Lines 168-174: the target-repos file after recordTargetURL(target).
log_target_repo_url(lines, target_url) == Append(lines, org_repo(target_url))

\* ------------------------------------------------------------------ state
VARIABLES
    repos,              \* the identifiers read from source_repos.csv
    run,                \* number of the current process run
    idx,                \* position of the batch loop in repos
    pc,                 \* next step of the loop body, or finished/crashed
    primary_language,   \* locals of the loop body
    build_system,
    build_system_list,
    sysIdx,             \* position of the template loop in build_system_list
    system,
    ci_found,
    ci_content,
    repo,
    dirs,               \* the local directories that exist
    csv_file,           \* migration_summary.csv
    target_repos_file,  \* target_repos.csv
    org_repos,          \* repositories that exist under ORG_NAME
    ci_file,            \* workflow file written for the latest repository
    fetchLog,           \* templates requested for the latest repository
    ev,                 \* what happened to the latest repository
    ledger_before,      \* the ledger when the latest repository began
    st,                 \* per identifier: Pending, Running, Done, Aborted, Crashed
    prev_all_done,      \* the previous run ended with every identifier Done
    ledger_at_start,    \* migration_summary.csv when this run started
    lines_at_start,     \* target_repos.csv when this run started
    listing,            \* top-level names handed to the detectors
    maps,               \* two indicator maps, the first included in the second
    found               \* what each detector returned for listing

locals == <<primary_language, build_system, build_system_list, sysIdx, system,
            ci_found, ci_content, repo>>

files == <<csv_file, target_repos_file>>

world == <<dirs, org_repos>>

ghost == <<ci_file, fetchLog, ev, ledger_before, st>>

\* What a run found when it started.
history == <<prev_all_done, ledger_at_start, lines_at_start>>

\* The detectors run on their own.
detector == <<listing, maps, found>>

vars == <<repos, run, idx, pc, locals, files, world, ghost, history, detector>>

\* Every list of at most MaxRepos identifiers.
InputLists == UNION { [1..n -> RepoIds] : n \in 0..MaxRepos }

LocalNames == { local_repo_name(r) : r \in RepoIds }

NoFile == <<>>

\* State of a fresh process on list l: line 193 and the loop head.
StartPc(l) == IF Len(l) = 0 THEN "finished" ELSE "detect"

\* No detector has run.
NotRun == [migration |-> None, pre_migration |-> None, sub |-> None, sup |-> None]

\* A first run of the script on list l.
Fresh(l) ==
    /\ repos = l
    /\ run = 1
    /\ idx = 1
    /\ pc = StartPc(repos)
    /\ primary_language = "None"
    /\ build_system = None
    /\ build_system_list = <<>>
    /\ sysIdx = 1
    /\ system = ""
    /\ ci_found = FALSE
    /\ ci_content = None
    /\ repo = None
    /\ dirs = {}
    /\ csv_file = [exists |-> FALSE, rows |-> <<>>]
    /\ target_repos_file = <<>>
    /\ org_repos = {}
    /\ ci_file = NoFile
    /\ fetchLog = <<>>
    /\ ev = {}
    /\ ledger_before = [exists |-> FALSE, rows |-> <<>>]
    /\ st = [i \in 1..Len(repos) |-> IF i = 1 THEN "Running" ELSE "Pending"]
    /\ prev_all_done = FALSE
    /\ ledger_at_start = [exists |-> FALSE, rows |-> <<>>]
    /\ lines_at_start = <<>>

Init ==
    /\ \E l \in InputLists : Fresh(l)
    /\ listing = <<>>
    /\ maps = << <<>>, <<>> >>
    /\ found = NotRun

repo_name == repos[idx]

Note(e) == ev' = ev \cup e

\* Once the body of an identifier has ended, ev keeps how it ended.
Outcomes ==
    {"detect_error", "no_match", "no_language", "create_failed",
     "ledger_row", "ledger_dup", "cleanup_failed"}

NoteEnd(old, e) == ev' = ((old \cup e) \cap Outcomes) \cup {"ended"}

\* Line 286 and the loop head: the body ended in state s for this identifier.
EndRepo(s) ==
    /\ idx' = idx + 1
    /\ pc' = IF idx + 1 > Len(repos) THEN "finished" ELSE "detect"
    /\ st' = [i \in 1..Len(repos) |->
                IF i = idx THEN s
                ELSE IF i = idx + 1 THEN "Running" ELSE st[i]]

\* An exception nothing catches: the process ends inside the loop body.
Crash ==
    /\ pc' = "crashed"
    /\ idx' = idx
    /\ st' = [st EXCEPT ![idx] = "Crashed"]

Goto(l) == pc' = l /\ idx' = idx /\ st' = st

\* Line 202 testing the build system alone.
DetectionUsable_BuildOnly(lang, bs) == Truthy(bs)

\* The check of line 202 left out.
DetectionUsable_Always(lang, bs) == TRUE

\* `if primary_language and build_system` (line 202).
DetectionUsable(lang, bs) == lang # "None" /\ lang # "" /\ Truthy(bs)

\* Lines 67-86: (None, None) on any exception, else the language and the
\* joined tags of a listing.
detect_language_and_build_system ==
    { <<"None", None, {"detect_error"}>> }
    \cup { <<lang, build_systems_detected(repo_files),
             {"detect_ok"}
             \cup (IF detected_build_systems(repo_files) = <<>>
                   THEN {"no_match"} ELSE {})
             \cup (IF lang = "None" THEN {"no_language"} ELSE {})>> :
           lang \in Languages, repo_files \in Listings }

\* Lines 201-211, 283-286: detection, the decision to migrate, the source
\* repository handle (g.get_repo outside any try) and the template loop's
\* setup.
Detect ==
    /\ pc = "detect"
    /\ UNCHANGED <<history, detector>>
    /\ \E d \in detect_language_and_build_system :
         /\ primary_language' = d[1]
         /\ build_system' = d[2]
         /\ IF DetectionUsable(d[1], d[2])
            THEN \/ /\ build_system_list' = Split(d[2])
                    /\ sysIdx' = 1
                    /\ ci_found' = FALSE
                    /\ ci_content' = None
                    /\ ev' = d[3] \cup {"get_repo"}
                    /\ Goto("fetch")
                 \/ /\ ev' = d[3] \cup {"get_repo_failed"}
                    /\ Crash
                    /\ UNCHANGED <<build_system_list, sysIdx, ci_found,
                                   ci_content>>
            ELSE /\ NoteEnd({}, d[3])
                 /\ EndRepo("Aborted")
                 /\ UNCHANGED <<build_system_list, sysIdx, ci_found,
                                ci_content>>
    /\ fetchLog' = <<>>
    /\ ci_file' = NoFile
    /\ ledger_before' = csv_file
    /\ UNCHANGED <<repos, run, system, repo, files, world>>

\* Lines 97-109: the template of a tag, or None when it is missing or the
\* request fails; a stored template may be an empty document.
fetch_ci_file_from_github(tag) == {None, <<>>, Template(tag)}

\* `if ci_content` written as a test against None.
TemplateFound_NotNone(c) == c # None

\* `if ci_content` (line 214).
TemplateFound(c) == Truthy(c)

\* Lines 212-219: one iteration of the template loop.
FetchTemplate ==
    /\ pc = "fetch"
    /\ UNCHANGED <<history, detector>>
    /\ system' = build_system_list[sysIdx]
    /\ \E c \in fetch_ci_file_from_github(system') :
         /\ ci_content' = c
         /\ fetchLog' = Append(fetchLog, <<system', c>>)
         /\ IF TemplateFound(c)
            THEN /\ ci_found' = TRUE
                 /\ sysIdx' = sysIdx
                 /\ Goto("mirror_clone")
            ELSE /\ ci_found' = ci_found
                 /\ IF sysIdx < Len(build_system_list)
                    THEN sysIdx' = sysIdx + 1 /\ Goto("fetch")
                    ELSE sysIdx' = sysIdx /\ Goto("mirror_clone")
    /\ Note({"fetch"})
    /\ UNCHANGED <<repos, run, primary_language, build_system,
                   build_system_list, repo, files, world, ci_file,
                   ledger_before>>

\* shutil.rmtree(path, onerror=remove_readonly) (lines 176-180, 186, 226):
\* read-only entries are made writable and deleted with the rest.
RmtreeForced(d, path) == d \ {path}

\* shutil.rmtree(path) without an error handler (line 234): the directory
\* is deleted, or the call raises on an entry whose mode forbids deletion
\* and the directory stays.
RmtreePlain(d, path) == { <<d \ {path}, TRUE>>, <<d, FALSE>> }

\* Lines 221-229: stale mirror removed, then git clone --mirror (check=True).
MirrorClone ==
    /\ pc = "mirror_clone"
    /\ UNCHANGED <<history, detector>>
    /\ LET path == local_repo_path(repo_name)
           stale == path \in dirs
           d1 == IF stale THEN RmtreeForced(dirs, path) ELSE dirs
       IN \/ /\ dirs' = d1 \cup {path}
             /\ Note({"mirror_clone"})
             /\ Goto("work_clone")
          \/ /\ dirs' = d1
             /\ Note({"mirror_clone_failed"})
             /\ Crash
    /\ UNCHANGED <<repos, run, locals, files, org_repos, ci_file,
                   fetchLog, ledger_before>>

\* Lines 231-236: stale worktree removed by a plain shutil.rmtree, then
\* git clone of the mirror (check=True).
WorkClone ==
    /\ pc = "work_clone"
    /\ UNCHANGED <<history, detector>>
    /\ LET path == temporary_work_dir(repo_name)
           stale == path \in dirs
       IN \E r \in IF stale THEN RmtreePlain(dirs, path) ELSE {<<dirs, TRUE>>} :
            IF ~r[2]
            THEN /\ dirs' = r[1]
                 /\ Note({"stale_worktree_rm_failed"})
                 /\ Crash
            ELSE \/ /\ dirs' = r[1] \cup {path}
                    /\ Note({"work_clone"})
                    /\ Goto("inject")
                 \/ /\ dirs' = r[1]
                    /\ Note({"work_clone_failed"})
                    /\ Crash
    /\ UNCHANGED <<repos, run, locals, files, org_repos, ci_file,
                   fetchLog, ledger_before>>

\* Lines 238-253: the workflow file written into the working clone, then
\* add, commit and push to main inside a try.
Inject ==
    /\ pc = "inject"
    /\ UNCHANGED <<history, detector>>
    /\ IF ci_found /\ Truthy(ci_content)
       THEN /\ ci_file' = <<CiFileName(system), ci_content>>
            /\ \/ Note({"inject", "ci_pushed"})
               \/ Note({"inject", "ci_failed"})
       ELSE UNCHANGED <<ci_file, ev>>
    /\ Goto("create")
    /\ UNCHANGED <<repos, run, locals, files, world, fetchLog, ledger_before>>

\* Lines 111-125: the existing repository, a newly created one, or None
\* when neither the lookup nor the creation succeeds.
create_or_update_repo(name, existing) ==
    { <<name, existing \cup {name}>> } \cup { <<None, existing>> }

\* The check of line 257 left out.
RepoUsable_Always(r) == TRUE

\* `if repo` (line 257).
RepoUsable(r) == Truthy(r)

\* Lines 255-257, 280-281: the target ensured, or this repository given up.
Create ==
    /\ pc = "create"
    /\ UNCHANGED <<history, detector>>
    /\ \E r \in create_or_update_repo(local_repo_name(repo_name), org_repos) :
         /\ repo' = r[1]
         /\ org_repos' = r[2]
    /\ LET e == {IF repo' = None THEN "create_failed" ELSE "create_ok"}
       IN IF RepoUsable(repo')
          THEN Note(e) /\ Goto("push")
          ELSE NoteEnd(ev, e) /\ EndRepo("Aborted")
    /\ UNCHANGED <<repos, run, primary_language, build_system,
                   build_system_list, sysIdx, system, ci_found, ci_content,
                   files, dirs, ci_file, fetchLog, ledger_before>>

\* Lines 127-138: whether every git command of push-all exited with 0;
\* CalledProcessError is printed and swallowed, nothing is returned.
push_branches_and_tags == {"push_ok", "push_failed"}

\* Lines 258-261: the push-all step.
Push ==
    /\ pc = "push"
    /\ UNCHANGED <<history, detector>>
    /\ \E r \in push_branches_and_tags : Note({"push", r})
    /\ Goto("log_csv")
    /\ UNCHANGED <<repos, run, locals, files, world, ci_file, fetchLog, ledger_before>>

\* Lines 263-265: the ledger record step.
LogCsv ==
    /\ pc = "log_csv"
    /\ UNCHANGED <<history, detector>>
    /\ csv_file' = log_migration_to_csv(csv_file, source_url(repo_name),
                                        push_url(repo_name), ci_found)
    /\ Note(IF csv_file' # csv_file THEN {"ledger_row"} ELSE {"ledger_dup"})
    /\ Goto("log_target")
    /\ UNCHANGED <<repos, run, locals, target_repos_file, world, ci_file,
                   fetchLog, ledger_before>>

\* Line 268: the target-repos line.
LogTarget ==
    /\ pc = "log_target"
    /\ UNCHANGED <<history, detector>>
    /\ target_repos_file' =
           log_target_repo_url(target_repos_file, push_url(repo_name))
    /\ Note({"target_line"})
    /\ Goto("gc")
    /\ UNCHANGED <<repos, run, locals, csv_file, world, ci_file, fetchLog, ledger_before>>

\* Line 271: git gc on the working clone (check=True, outside any try).
Gc ==
    /\ pc = "gc"
    /\ UNCHANGED <<history, detector>>
    /\ \/ Note({"gc"}) /\ Goto("cleanup")
       \/ Note({"gc_failed"}) /\ Crash
    /\ UNCHANGED <<repos, run, locals, files, world, ci_file, fetchLog, ledger_before>>

\* Lines 182-188: the directory deleted, or left when rmtree raises; the
\* exception is printed and swallowed.
cleanup_directory(d, path) == { RmtreeForced(d, path), d }

\* Lines 273-279: both ephemeral directories cleaned up.
Cleanup ==
    /\ pc = "cleanup"
    /\ UNCHANGED <<history, detector>>
    /\ \E d1 \in cleanup_directory(dirs, local_repo_path(repo_name)) :
         \E d2 \in cleanup_directory(d1, temporary_work_dir(repo_name)) :
            /\ dirs' = d2
            /\ NoteEnd(ev, IF {local_repo_path(repo_name),
                                temporary_work_dir(repo_name)} \cap d2 # {}
                            THEN {"cleanup_failed"} ELSE {})
    /\ EndRepo("Done")
    /\ UNCHANGED <<repos, run, locals, files, org_repos, ci_file,
                   fetchLog, ledger_before>>

\* The script started again on the same source list; files, directories
\* and the target organisation are what the previous run left.
Restart ==
    /\ pc \in {"finished", "crashed"}
    /\ run < MaxRuns
    /\ run' = run + 1
    /\ idx' = 1
    /\ pc' = StartPc(repos)
    /\ primary_language' = "None"
    /\ build_system' = None
    /\ build_system_list' = <<>>
    /\ sysIdx' = 1
    /\ system' = ""
    /\ ci_found' = FALSE
    /\ ci_content' = None
    /\ repo' = None
    /\ ci_file' = NoFile
    /\ fetchLog' = <<>>
    /\ ev' = {}
    /\ ledger_before' = csv_file
    /\ st' = [i \in 1..Len(repos) |-> IF i = 1 THEN "Running" ELSE "Pending"]
    /\ prev_all_done' = (pc = "finished" /\ \A i \in 1..Len(repos) : st[i] = "Done")
    /\ ledger_at_start' = csv_file
    /\ lines_at_start' = target_repos_file
    /\ UNCHANGED <<repos, files, world, detector>>

Next ==
    \/ Detect
    \/ FetchTemplate
    \/ MirrorClone
    \/ WorkClone
    \/ Inject
    \/ Create
    \/ Push
    \/ LogCsv
    \/ LogTarget
    \/ Gc
    \/ Cleanup
    \/ Restart

Spec == Init /\ [][Next]_vars

\* ------------------------------------------------- the detectors on their own
\* Names a top-level listing can hold.
FileNames ==
    { <<"p","o","m",".","x","m","l">>,
      <<"m","y","-","p","o","m",".","x","m","l">>,
      <<"p","a","c","k","a","g","e",".","j","s","o","n">>,
      <<"r","e","q","u","i","r","e","m","e","n","t","s",".","t","x","t">>,
      <<"y","a","r","n",".","l","o","c","k">>,
      <<"R","E","A","D","M","E",".","m","d">> }

\* repo.get_contents(""): at most MaxFiles names, each once.
TopLevelListings ==
    UNION { { f \in [1..n -> FileNames] :
                \A i, j \in 1..n : f[i] = f[j] => i = j } : n \in 0..MaxFiles }

\* The entries of build_systems the names above can match.
MapPool ==
    SelectSeq(build_systems,
              LAMBDA e : e[1] \in {"maven", "npm", "yarn"})

\* The maps made of some entries of m, in m's order.
SubMaps(m) ==
    { SelectSeq(m, LAMBDA e : e[1] \in T) :
        T \in SUBSET { m[k][1] : k \in 1..Len(m) } }

DetectorInit ==
    /\ Fresh(<<>>)
    /\ listing \in TopLevelListings
    /\ \E m \in SubMaps(MapPool) : \E sub \in SubMaps(m) : maps = <<sub, m>>
    /\ found = NotRun

\* migration.py lines 73-83 on the listing.
RunDetector ==
    /\ found.migration = None
    /\ found' = [found EXCEPT !.migration = build_systems_detected(listing)]
    /\ UNCHANGED <<repos, run, idx, pc, locals, files, world, ghost, history,
                   listing, maps>>

\* pre_migration.py lines 37-45 on the same listing.
RunPreMigrationDetector ==
    /\ found.pre_migration = None
    /\ found' = [found EXCEPT
                    !.pre_migration = pre_migration_build_systems_detected(listing)]
    /\ UNCHANGED <<repos, run, idx, pc, locals, files, world, ghost, history,
                   listing, maps>>

\* The loop of lines 76-79 run with each of the two maps.
RunOnMaps ==
    /\ found.sub = None
    /\ found' = [found EXCEPT !.sub = DetectFrom(maps[1], listing, 1),
                              !.sup = DetectFrom(maps[2], listing, 1)]
    /\ UNCHANGED <<repos, run, idx, pc, locals, files, world, ghost, history,
                   listing, maps>>

DetectorNext ==
    \/ RunDetector
    \/ RunPreMigrationDetector
    \/ RunOnMaps

DetectorSpec == DetectorInit /\ [][DetectorNext]_vars

\* ------------------------------------------------------------- properties
\* The identifier ev speaks about: the one in the loop body, or the one
\* whose body just ended.
Latest == IF "ended" \in ev THEN idx - 1 ELSE idx

\* The loop has moved on from an identifier whose body has ended.
LoopWentOn == pc = (IF idx <= Len(repos) THEN "detect" ELSE "finished")

MigrationSteps ==
    {"fetch", "mirror_clone", "mirror_clone_failed", "work_clone",
     "work_clone_failed", "inject", "create_ok", "create_failed", "push"}

LogWrites == {"ledger_row", "target_line"}

\* The latest repository has a detected build system.
Matched == "no_match" \notin ev

\* C1: when the push-all step of a repository (one with a detected build
\* system) fails, no ledger row and no target-repos line is written for it
\* in that run.
C1_PushFailureWritesNoLog ==
    Matched /\ "push_failed" \in ev => ev \cap LogWrites = {}

\* C2: whichever of the listed steps fail, the run never ends inside a
\* repository (here one with a detected build system): every identifier
\* ends Done or Aborted and the next one is still processed.
C2_NoStepFailureStopsBatch ==
    Matched /\ "get_repo_failed" \notin ev =>
        /\ pc # "crashed"
        /\ \A i \in 1..Len(repos) : st[i] # "Crashed"
        /\ pc = "finished" =>
              \A i \in 1..Len(repos) : st[i] \in {"Done", "Aborted"}

\* C3: a repository whose listing matches no indicator is skipped entirely:
\* no template fetch, clone, target creation, push or log write.
C3_NoMatchSkipsMigration ==
    "no_match" \in ev =>
        /\ ev \cap (MigrationSteps \cup LogWrites) = {}
        /\ st[Latest] = "Aborted"

DataSources(file) == { file.rows[i][1] : i \in 2..Len(file.rows) }

LedgerWellFormed ==
    /\ csv_file.exists <=> Len(csv_file.rows) > 0
    /\ csv_file.exists => csv_file.rows[1] = HEADER /\ Len(csv_file.rows) >= 2
    /\ \A i, j \in 2..Len(csv_file.rows) :
          csv_file.rows[i][1] = csv_file.rows[j][1] => i = j

\* What the latest repository's record step did to the ledger it found.
LedgerStep ==
    LET old == ledger_before.rows
        src == source_url(repos[Latest])
        row == <<src, push_url(repos[Latest]), BoolStr(ci_found)>>
    IN IF "ledger_row" \in ev
       THEN /\ src \notin DataSources(ledger_before)
            /\ csv_file.rows =
                  (IF old = <<>> THEN <<HEADER>> ELSE old) \o <<row>>
       ELSE /\ csv_file = ledger_before
            /\ "ledger_dup" \in ev => src \in DataSources(ledger_before)

\* C4: the ledger holds one header and at most one row per sourceURL; a
\* record call either leaves the file as it is (source already present) or
\* appends exactly one row for a source that was not present, after the
\* rows already there.
C4_LedgerOneRowPerSource == LedgerWellFormed /\ LedgerStep

\* A second run found the first identifier already recorded and skipped it,
\* leaving both rows of the first run in place.
C4_Witness ==
    /\ run = 2
    /\ "ledger_dup" \in ev
    /\ Len(csv_file.rows) = 3

\* C5: when the target can be neither found nor created, push-all is not
\* attempted, nothing is logged for the repository, and the loop goes on
\* to the next identifier.
C5_CreateFailureAborts ==
    "create_failed" \in ev =>
        /\ ev \cap ({"push"} \cup LogWrites \cup {"ledger_dup"}) = {}
        /\ st[Latest] = "Aborted"
        /\ LoopWentOn

\* Target creation failed for the first identifier and the second one is
\* about to be processed.
C5_Witness ==
    /\ "create_failed" \in ev
    /\ idx = 2
    /\ pc = "detect"
    /\ st = <<"Aborted", "Running">>

\* C6: an error while fetching the repository data or listing skips the
\* repository: no later step runs for it, nothing is logged, and the loop
\* goes on to the next identifier.
C6_DetectionErrorSkips ==
    "detect_error" \in ev =>
        /\ ev = {"detect_error", "ended"}
        /\ st[Latest] = "Aborted"
        /\ LoopWentOn

\* Detection failed for the first identifier and the second one is about
\* to be processed.
C6_Witness ==
    /\ "detect_error" \in ev
    /\ idx = 2
    /\ pc = "detect"
    /\ st = <<"Aborted", "Running">>

\* The template loop of the latest repository has ended.
LoopOver == fetchLog # <<>> /\ pc # "fetch"

LastFetch == fetchLog[Len(fetchLog)]

\* The templates are requested for the tags of the detection result, in
\* its order.
FetchedInOrder ==
    /\ Len(fetchLog) <= Len(build_system_list)
    /\ \A k \in 1..Len(fetchLog) : fetchLog[k][1] = build_system_list[k]

\* The body of the latest repository has not ended yet.
InBody == "ended" \notin ev

\* The steps after the working clone's injection step.
InjectionDone == InBody /\ "work_clone" \in ev /\ pc # "inject"

C8_CleanupFailureNeverEscalates ==
    Matched /\ ev \cap {"gc_failed", "cleanup_failed"} # {} =>
        /\ pc # "crashed"
        /\ st[Latest] # "Crashed"

\* C9: leftover directories are removed before the clones and never make
\* the migration fail.
C9_LeftoversNeverFailMigration ==
    Matched => "stale_worktree_rm_failed" \notin ev

\* C10: after a failed CI commit or push the repository still goes to
\* target creation and push-all and, when both succeed, is logged and ends
\* Done.
C10_InjectionFailureIsSoft ==
    Matched /\ "ci_failed" \in ev =>
        /\ pc # "inject" => ev \cap {"create_ok", "create_failed"} # {}
                            \/ pc = "create"
        /\ {"create_ok", "push_ok"} \subseteq ev =>
              /\ st[Latest] \in {"Running", "Done"}
              /\ st[Latest] = "Done" => LogWrites \cap ev # {}

\* The run is over and every identifier of the list ended Done.
AllDone == pc = "finished" /\ \A i \in 1..Len(repos) : st[i] = "Done"

\* The lines one run writes for a list, one per identifier.
TargetLines(l) == [i \in 1..Len(l) |-> org_repo(push_url(l[i]))]

\* C11: a run in which every repository ends Done adds one line per
\* repository of the list to the target-repos log, and when the previous
\* run on the same list also ended with every repository Done the ledger
\* is left exactly as that run left it.
C11_RerunKeepsLedgerAppendsTargets ==
    AllDone =>
        /\ target_repos_file = lines_at_start \o TargetLines(repos)
        /\ prev_all_done => csv_file = ledger_at_start

\* Two identifiers migrated in two complete runs: three ledger rows with
\* the header, four target lines.
C11_Witness ==
    /\ run = 2
    /\ prev_all_done
    /\ AllDone
    /\ repos = << <<"acme", "/", "k","i","t">>, <<"beta", "/", "k","i","t">> >>
    /\ Len(csv_file.rows) = 3
    /\ Len(target_repos_file) = 4

\* C12: the line the latest repository (one with a detected build system)
\* added to the target-repos log is "<org>/<name>", the target URL without
\* the host prefix and without the ".git" suffix, the name kept whole.
C12_TargetLineKeepsName ==
    Matched /\ InBody /\ "target_line" \in ev =>
        target_repos_file[Len(target_repos_file)]
            = ORG_NAME \o <<"/">> \o local_repo_name(repos[Latest])

\* ind occurs in name: name is some characters, ind, some characters.
Contains(name, ind) ==
    \E a \in 0..Len(name) :
        /\ a + Len(ind) <= Len(name)
        /\ \A i \in 1..Len(ind) : name[a + i] = ind[i]

\* The positions of build_systems whose indicator occurs in a name of the
\* listing.
Hits ==
    { k \in 1..Len(build_systems) :
        \E j \in 1..Len(listing) : Contains(listing[j], build_systems[k][2]) }

\* The place of hit k among the hits, in the map's order.
Rank(k) == Cardinality({ h \in Hits : h < k }) + 1

\* C13: detection returns the sentinel when no indicator occurs in a name,
\* and otherwise the tag of every position in Hits, once each, in the
\* map's order, separated by ", ".
C13_DetectionReturnsAllMatchesInOrder ==
    found.migration # None =>
        IF Hits = {}
        THEN found.migration = <<NO_BUILD_SYSTEM>>
        ELSE /\ Len(found.migration) = 2 * Cardinality(Hits) - 1
             /\ \A k \in Hits :
                   found.migration[2 * Rank(k) - 1] = build_systems[k][1]
             /\ \A i \in 1..(Cardinality(Hits) - 1) :
                   found.migration[2 * i] = ", "

\* A name that only contains pom.xml and a second match: both tags are
\* returned, maven first.
C13_Witness ==
    /\ listing = << <<"p","a","c","k","a","g","e",".","j","s","o","n">>,
                    <<"m","y","-","p","o","m",".","x","m","l">> >>
    /\ found.migration = <<"maven", ", ", "npm">>

\* C14: every tag detected with the included map is detected with the
\* including map.
C14_DetectionMonotonicInMap ==
    found.sub # None =>
        \A i \in 1..Len(found.sub) :
            \E j \in 1..Len(found.sup) : found.sup[j] = found.sub[i]

\* A map strictly included in another one, a tag detected with both and a
\* tag detected only with the larger one.
C14_Witness ==
    /\ Len(maps[1]) < Len(maps[2])
    /\ found.sub = <<"npm">>
    /\ found.sup = <<"maven", "npm">>

\* C15: the audit and the migration return the same build systems for a
\* listing.
C15_AuditAndMigrationDetectAlike ==
    found.migration # None /\ found.pre_migration # None =>
        found.pre_migration = found.migration

\* The ledger record step of the latest repository has run.
LedgerStepDone == ev \cap {"ledger_row", "ledger_dup"} # {}

\* C16: the steps of a repository happen in the order detection, template
\* lookup, clones, injection, target creation, push-all, ledger record,
\* target-repos line, gc, cleanup: push-all only after the target was
\* ensured, the log writes only after push-all, the target-repos line only
\* after the ledger record step, and the directories the clones made stay
\* until the cleanup step, which comes after both log writes.
C16_StepsInOrder ==
    /\ InBody =>
          /\ "fetch" \in ev => "detect_ok" \in ev
          /\ "mirror_clone" \in ev => "fetch" \in ev /\ pc # "fetch"
          /\ "work_clone" \in ev => "mirror_clone" \in ev
          /\ "inject" \in ev => "work_clone" \in ev
          /\ "create_ok" \in ev => "work_clone" \in ev /\ pc # "inject"
          /\ "push" \in ev => "create_ok" \in ev
          /\ LedgerStepDone => "push" \in ev
          /\ "target_line" \in ev => LedgerStepDone
          /\ ev \cap {"gc", "gc_failed"} # {} => "target_line" \in ev
          /\ pc = "cleanup" => "gc" \in ev
          /\ "mirror_clone" \in ev => local_repo_path(repo_name) \in dirs
          /\ "work_clone" \in ev => temporary_work_dir(repo_name) \in dirs
    /\ "ended" \in ev /\ st[Latest] = "Done" => LedgerStepDone

\* A repository went through every step: logged in both files, its
\* directories deleted, Done.
C16_Witness ==
    /\ "ended" \in ev
    /\ st[Latest] = "Done"
    /\ "ledger_row" \in ev
    /\ target_repos_file # <<>>
    /\ dirs = {}

\* C17: the flag of the row the latest repository (one with a detected
\* build system) wrote is True exactly when its CI commit was pushed into
\* the mirror.
C17_FlagTrueIffCiAttached ==
    Matched /\ InBody /\ "ledger_row" \in ev =>
        csv_file.rows[Len(csv_file.rows)][3] = BoolStr("ci_pushed" \in ev)

IsPrefix(a, b) == Len(a) <= Len(b) /\ SubSeq(b, 1, Len(a)) = a

\* C18: every step leaves what the ledger and the target-repos log held
\* as a prefix of what they hold afterwards.
C18_LogsAppendOnly ==
    [][/\ IsPrefix(csv_file.rows, csv_file'.rows)
       /\ IsPrefix(target_repos_file, target_repos_file')]_vars

\* Both files written in a first run and written again in a second run
\* that ended inside a repository.
C18_Witness ==
    /\ run = 2
    /\ pc = "crashed"
    /\ Len(csv_file.rows) = 3
    /\ Len(target_repos_file) = 3

\* C19: ledger rows of different sources name different targets.
C19_DistinctSourcesDistinctTargets ==
    \A i, j \in 2..Len(csv_file.rows) :
        csv_file.rows[i][1] # csv_file.rows[j][1]
            => csv_file.rows[i][2] # csv_file.rows[j][2]

\* The body of the latest repository ended at line 284, after detection.
AbortedAtDetecting ==
    /\ "ended" \in ev
    /\ st[Latest] = "Aborted"
    /\ "create_failed" \notin ev

====
